---- MODULE Spec2Model ----
(***************************************************************************)
(* Model of the nxp_simtemp driver (kernel/nxp_simtemp.c): the timer       *)
(* callback that produces samples, the sysfs stores, and the per-file      *)
(* read/poll protocol of /dev/simtemp.                                     *)
(*                                                                         *)
(* Every region the driver brackets with mutex_lock(&simtemp_lock) /       *)
(* mutex_unlock is one atomic step, and read() and poll() are split at     *)
(* those regions so that the timer callback, the sysfs stores and other    *)
(* callers interleave between them.  A call's return value is a parameter  *)
(* of its last step.  Text buffers are sequences of one-character strings. *)
(***************************************************************************)
EXTENDS Integers, Sequences, FiniteSets, TLC

(***************************************************************************)
(* Bounds of the model.                                                    *)
(***************************************************************************)
MaxTicks == 2      \* timer callbacks explored
CounterMod == 8     \* values of an unsigned int counter (2^32 in the driver)
ScenarioTicks == 3  \* timer callbacks of the end-to-end scenarios
MaxRandom == 399    \* results of get_random_u32() compared in the noise range

Threads == {"t1", "t2"}     \* user threads issuing read()/poll()
Files   == {"f1", "f2"}     \* struct file slots of /dev/simtemp

(***************************************************************************)
(* Program constants.                                                      *)
(***************************************************************************)
NEW_SAMPLE        == 1
THRESHOLD_CROSSED == 2
SIMTEMP_SAMPLING_MS_MIN  == 1
SIMTEMP_SAMPLING_MS_MAX  == 10000
SIMTEMP_THRESHOLD_MC_MIN == -20000
SIMTEMP_THRESHOLD_MC_MAX == 60000
SIMTEMP_MODE_NORMAL == <<"n","o","r","m","a","l">>
SIMTEMP_MODE_NOISY  == <<"n","o","i","s","y">>
SIMTEMP_MODE_RAMP   == <<"r","a","m","p">>
SampleSize == 16            \* sizeof(struct simtemp_sample), packed 8+4+4
ModeBufSize == 16           \* char mode[16], char mode_buf[16]
POLLIN     == 1
POLLPRI    == 2
POLLERR    == 8
POLLRDNORM == 64
EINVAL      == 22
EFAULT      == 14
ENOMEM      == 12
ERESTARTSYS == 512
ERANGE      == 34

NULL == [null |-> TRUE]

(***************************************************************************)
(* Decimal text.                                                           *)
(***************************************************************************)
Digits == <<"0","1","2","3","4","5","6","7","8","9">>

IsDigit(c) == \E i \in 1..10 : Digits[i] = c

DigitVal(c) == (CHOOSE i \in 1..10 : Digits[i] = c) - 1

RECURSIVE DecU(_)
\* operator<<(unsigned) / "%u": decimal digits, no sign, no padding
DecU(n) == IF n < 10 THEN <<Digits[n + 1]>>
           ELSE DecU(n \div 10) \o <<Digits[(n % 10) + 1]>>

\* operator<<(int) / "%d"
DecI(n) == IF n < 0 THEN <<"-">> \o DecU(0 - n) ELSE DecU(n)

\* f << v << std::endl : the text the CLI writes into a sysfs attribute
EndlU(n) == DecU(n) \o <<"\n">>
EndlI(n) == DecI(n) \o <<"\n">>

\* Every number above ParseCap is rejected by both stores, by the range
\* test or because kstrto* reports -ERANGE; the parser keeps such a number
\* as Huge and reports it as -ERANGE.
ParseCap == 100000000
Huge == ParseCap + 1

RECURSIVE ParseDigits(_, _, _)
\* _parse_integer: consume the leading decimal digits of s from index i,
\* accumulating their value in acc
ParseDigits(s, i, acc) ==
    IF i <= Len(s) /\ IsDigit(s[i])
    THEN LET v == acc * 10 + DigitVal(s[i])
         IN  ParseDigits(s, i + 1, IF v > ParseCap THEN Huge ELSE v)
    ELSE [next |-> i, val |-> acc]

\* _kstrtoull(s, 10, &res): digits, then an optional single newline, then
\* the end of the string.  err is 0 or a negative errno.
KstrtoullAt(s, start) ==
    LET p   == ParseDigits(s, start, 0)
        end == IF p.next <= Len(s) /\ s[p.next] = "\n" THEN p.next + 1 ELSE p.next
    IN  IF p.next = start THEN [err |-> 0 - EINVAL, val |-> 0]
        ELSE IF end <= Len(s) THEN [err |-> 0 - EINVAL, val |-> 0]
        ELSE IF p.val = Huge THEN [err |-> 0 - ERANGE, val |-> 0]
        ELSE [err |-> 0, val |-> p.val]

\* kstrtoull: one optional leading '+'
Kstrtoull(s) ==
    IF Len(s) >= 1 /\ s[1] = "+" THEN KstrtoullAt(s, 2) ELSE KstrtoullAt(s, 1)

\* kstrtouint(buf, 10, &val)
kstrtouint(s) == Kstrtoull(s)

\* kstrtoint(buf, 10, &val): kstrtoll negates what follows a leading '-'
kstrtoint(s) ==
    IF Len(s) >= 1 /\ s[1] = "-"
    THEN LET r == KstrtoullAt(s, 2)
         IN  IF r.err # 0 THEN r ELSE [err |-> 0, val |-> 0 - r.val]
    ELSE Kstrtoull(s)

(***************************************************************************)
(* Inputs.                                                                 *)
(***************************************************************************)
\* values a caller writes to sampling_ms (as "<v>\n"); 250 is scenario S4
PeriodValues == {0, SIMTEMP_SAMPLING_MS_MIN, 250, SIMTEMP_SAMPLING_MS_MAX,
                 SIMTEMP_SAMPLING_MS_MAX + 1}
\* values a caller writes to threshold_mC; 44015 is scenario S2
ThresholdValues == {SIMTEMP_THRESHOLD_MC_MIN - 1, SIMTEMP_THRESHOLD_MC_MIN, 44015,
                    SIMTEMP_THRESHOLD_MC_MAX, SIMTEMP_THRESHOLD_MC_MAX + 1}
\* thresholds written while consumers read: 44005 lies between the first two
\* samples of the normal generator, 45000 is the default above them
AlertThresholds == {44005, 45000}
\* the texts "normal\n", "noisy\n", "ramp\n" a caller writes to select a mode
ModeTokens == {SIMTEMP_MODE_NORMAL \o <<"\n">>, SIMTEMP_MODE_NOISY \o <<"\n">>,
               SIMTEMP_MODE_RAMP \o <<"\n">>}
\* texts a caller writes to mode
ModeTexts == {SIMTEMP_MODE_NORMAL \o <<"\n">>, SIMTEMP_MODE_NOISY \o <<"\n">>,
              SIMTEMP_MODE_RAMP \o <<"\n">>, SIMTEMP_MODE_RAMP,
              <<"R","a","m","p","\n">>, <<>>,
              <<"r","a","m","p","\n","x">>}
\* scenario S4 writes 0 and then 250 to sampling_ms
ScenarioPeriods == {0, 250}
\* contents of mode[] that are none of the three tokens
InvalidModes == {<<"?">>, <<>>, <<"R","a","m","p">>, <<"r","a","m","p","\n">>,
                 <<"r","a","r","m","a","l">>}
\* results of get_random_u32() explored by the noisy generator
RandomValues == {0, 100, 199}
\* byte counts a caller passes to read()
ReadCounts == {SampleSize - 1, SampleSize}

(***************************************************************************)
(* State.                                                                  *)
(***************************************************************************)
VARIABLES
    sampling_ms,          \* static unsigned int sampling_ms
    threshold_mC,         \* static int threshold_mC
    mode,                 \* static char mode[16], as the string it holds
    stats_updates,        \* static unsigned int stats_updates
    stats_alerts,         \* static unsigned int stats_alerts
    stats_last_error,     \* static int stats_last_error
    simtemp_current_mC,   \* static int simtemp_current_mC
    simtemp_sample_seq,   \* static unsigned int simtemp_sample_seq
    direction,            \* static int direction of simtemp_mode_ramp
    simtemp_timer,        \* [state, ms]: the timer and the delay it was armed with
    mode_copy,            \* mode_store between validation and the end of its strncpy
    is_open,              \* is_open[f]: the struct file exists
    private_data,         \* file->private_data: NULL or a simtemp_file_state
    pc,                   \* position of each thread inside read()/poll()
    fd,                   \* the file of the thread's current call
    prev_seq,             \* local of simtemp_read
    last_alert_state,     \* local of simtemp_read
    alert,                \* local of simtemp_read
    sample,               \* local struct simtemp_sample of simtemp_read
    \* history variables, read by the properties only
    snap_seq,             \* simtemp_sample_seq when the thread materialized its sample
    snap_thr,             \* threshold_mC when the thread materialized its sample
    entry_cursor,         \* state->last_seq when the read obtained its file state
    seen_done,            \* snapshots delivered on the session before the read was issued
    done_snaps,           \* per file: snapshots delivered by completed reads
    created_seq,          \* per file: simtemp_sample_seq when the session was created
    interrupted_at,       \* per file: [seq |-> simtemp_sample_seq] when a read was
                          \* interrupted and no read has returned since, else NULL
    simtemp_wq,           \* simtemp_wq[t]: the wait entry of thread t once the steps
                          \* of wait_event_interruptible are followed one by one
    cli,                  \* locals of run_test_mode of the CLI
    probe                 \* binding of the platform device: nxp_simtemp_probe

engine == <<sampling_ms, threshold_mC, mode, stats_updates, stats_alerts,
            stats_last_error, simtemp_current_mC, simtemp_sample_seq, direction>>
config == <<sampling_ms, threshold_mC, mode>>
files  == <<is_open, private_data>>
locals == <<prev_seq, last_alert_state, alert, sample>>
callhist == <<snap_seq, snap_thr, entry_cursor, seen_done>>
hist   == <<callhist, done_snaps, created_seq, interrupted_at>>
vars   == <<engine, simtemp_timer, mode_copy, files, pc, fd, locals, hist,
           simtemp_wq, cli, probe>>

NoSample == [temp_mC |-> 0, flags |-> 0]
\* run_test_mode has not been started
NoTest == [pc |-> "none", sample |-> NoSample, period |-> 0, period_count |-> 0]
AnyFile == CHOOSE f \in Files : TRUE
\* the file all threads share, and the thread that holds all files
SharedFile == {"f1"}
Reader == {"t1"}

\* (simtemp_current_mC >= threshold_mC) ? 1 : 0
Polarity(cur, thr) == IF cur >= thr THEN 1 ELSE 0

\* the static variables of the module as the loader leaves them, with no
\* file open and no call in progress
InitStatics ==
    /\ sampling_ms = 100
    /\ threshold_mC = 45000
    /\ mode = SIMTEMP_MODE_NORMAL
    /\ stats_updates = 0
    /\ stats_alerts = 0
    /\ stats_last_error = 0
    /\ simtemp_current_mC = 44000
    /\ simtemp_sample_seq = 0
    /\ direction = 1
    /\ mode_copy = NULL
    /\ is_open = [f \in Files |-> FALSE]
    /\ private_data = [f \in Files |-> NULL]
    /\ pc = [t \in Threads |-> "idle"]
    /\ fd = [t \in Threads |-> AnyFile]
    /\ prev_seq = [t \in Threads |-> 0]
    /\ last_alert_state = [t \in Threads |-> 0]
    /\ alert = [t \in Threads |-> 0]
    /\ sample = [t \in Threads |-> NoSample]
    /\ snap_seq = [t \in Threads |-> 0]
    /\ snap_thr = [t \in Threads |-> 0]
    /\ entry_cursor = [t \in Threads |-> 0]
    /\ seen_done = [t \in Threads |-> {}]
    /\ done_snaps = [f \in Files |-> {}]
    /\ created_seq = [f \in Files |-> 0]
    /\ interrupted_at = [f \in Files |-> NULL]
    /\ simtemp_wq = [t \in Threads |-> "off"]
    /\ cli = NoTest

\* the module is loaded and nxp_simtemp_probe has returned 0: the timer is
\* armed with the default period
Init ==
    /\ InitStatics
    /\ simtemp_timer = [state |-> "pending", ms |-> 100]
    /\ probe = "done"

\* the module is loaded and the platform device is about to be probed
InitProbe ==
    /\ InitStatics
    /\ simtemp_timer = [state |-> "idle", ms |-> 0]
    /\ probe = "none"

(***************************************************************************)
(* Temperature generators.  Each returns the new                           *)
(* [mC |-> simtemp_current_mC, dir |-> direction].                         *)
(***************************************************************************)
\* a normal step applied twice in one tick
simtemp_mode_normal_twice(cur, dir) ==
    LET c == cur + 20
    IN  [mC |-> IF c > 46000 THEN 44000 ELSE c, dir |-> dir]

simtemp_mode_normal(cur, dir) ==
    LET c == cur + 10
    IN  [mC |-> IF c > 46000 THEN 44000 ELSE c, dir |-> dir]

\* int noise = (get_random_u32() % 200) - 100: the unsigned difference wraps
\* and converts back to the int of the same value
Noise(r) == (r % 200) - 100

\* the two if statements of simtemp_mode_noisy: the reading is brought
\* back into 44000..46000
ClampNoisy(c) == IF c > 46000 THEN 46000 ELSE IF c < 44000 THEN 44000 ELSE c

\* a noisy step without the clamp
simtemp_mode_noisy_unclamped(cur, dir, r) == [mC |-> cur + Noise(r), dir |-> dir]

\* simtemp_mode_noisy: the noise is added and the result clamped
simtemp_mode_noisy(cur, dir, r) ==
    LET c  == cur + Noise(r)
        c1 == IF c > 46000 THEN 46000 ELSE c
        c2 == IF c1 < 44000 THEN 44000 ELSE c1
    IN  [mC |-> c2, dir |-> dir]

\* a ramp that starts over from the base reading
simtemp_mode_ramp_from_base(cur, dir) ==
    LET c  == 44000 + dir * 50
        d1 == IF c >= 46000 THEN -1 ELSE dir
        d2 == IF c <= 44000 THEN 1 ELSE d1
    IN  [mC |-> c, dir |-> d2]

\* simtemp_mode_ramp: one step of 50 mC in the current direction, which
\* turns at the limits
simtemp_mode_ramp(cur, dir) ==
    LET c  == cur + dir * 50
        d1 == IF c >= 46000 THEN -1 ELSE dir
        d2 == IF c <= 44000 THEN 1 ELSE d1
    IN  [mC |-> c, dir |-> d2]

\* a chain whose last branch runs the normal generator
Generate_else_normal(m, cur, dir, r) ==
    IF m = SIMTEMP_MODE_NOISY THEN simtemp_mode_noisy(cur, dir, r)
    ELSE IF m = SIMTEMP_MODE_RAMP THEN simtemp_mode_ramp(cur, dir)
    ELSE simtemp_mode_normal(cur, dir)

\* the strcmp chain of simtemp_update_temp on the mode string m
Generate(m, cur, dir, r) ==
    IF m = SIMTEMP_MODE_NOISY THEN simtemp_mode_noisy(cur, dir, r)
    ELSE IF m = SIMTEMP_MODE_RAMP THEN simtemp_mode_ramp(cur, dir)
    ELSE IF m = SIMTEMP_MODE_NORMAL THEN simtemp_mode_normal(cur, dir)
    ELSE [mC |-> cur, dir |-> dir]

\* What the callback can read from mode[]: mode_store copies into it without
\* the mutex, so during a copy the callback sees the old string, the new
\* one, or (when they differ) a mixture of both that is no valid token.
Torn == <<"?">>
ModeSeenByTick ==
    IF mode_copy = NULL THEN {mode}
    ELSE IF mode_copy.to = mode THEN {mode}
    ELSE {mode, mode_copy.to, Torn}

\* simtemp_update_temp between mutex_lock and mutex_unlock: one generator
\* step, stats_updates++ and simtemp_sample_seq++
UpdateUnderLock ==
    /\ \E m \in ModeSeenByTick, r \in RandomValues :
          LET g == Generate(m, simtemp_current_mC, direction, r)
          IN  /\ simtemp_current_mC' = g.mC
              /\ direction' = g.dir
    /\ stats_updates' = (stats_updates + 1) % CounterMod
    /\ simtemp_sample_seq' = (simtemp_sample_seq + 1) % CounterMod

\* a callback that also counts the threshold edges it produces
simtemp_update_temp_counts_edges ==
    /\ simtemp_timer.state = "pending"
    /\ UpdateUnderLock
    /\ simtemp_timer' = [state |-> "pending", ms |-> sampling_ms]
    /\ stats_alerts' = IF Polarity(simtemp_current_mC', threshold_mC)
                            # Polarity(simtemp_current_mC, threshold_mC)
                       THEN (stats_alerts + 1) % CounterMod ELSE stats_alerts
    /\ UNCHANGED <<config, stats_last_error, mode_copy, files, pc, fd,
                   locals, hist, simtemp_wq, cli, probe>>

\* simtemp_update_temp: the region under simtemp_lock, then
\* wake_up_interruptible and mod_timer with the sampling_ms of that moment
simtemp_update_temp ==
    /\ simtemp_timer.state = "pending"
    /\ UpdateUnderLock
    /\ simtemp_timer' = [state |-> "pending", ms |-> sampling_ms]
    /\ UNCHANGED <<config, stats_alerts, stats_last_error, mode_copy, files, pc, fd,
                   locals, hist,
                   simtemp_wq, cli, probe>>

\* the timer fires, at most MaxTicks times
Tick == stats_updates < MaxTicks /\ simtemp_update_temp

(***************************************************************************)
(* Sysfs stores.                                                           *)
(***************************************************************************)
\* a range test that forgot the lower limit
sampling_ms_rejects_no_min(r) ==
    r.err < 0 \/ r.val > SIMTEMP_SAMPLING_MS_MAX

\* the test of sampling_ms_store that leads to return -EINVAL
sampling_ms_rejects(r) ==
    r.err < 0 \/ r.val < SIMTEMP_SAMPLING_MS_MIN \/ r.val > SIMTEMP_SAMPLING_MS_MAX

\* the value sampling_ms_store returns to the writer
sampling_ms_store_ret(buf) ==
    IF sampling_ms_rejects(kstrtouint(buf)) THEN 0 - EINVAL ELSE Len(buf)

\* a store that resets last_error when it accepts the value
sampling_ms_store_clears_error(buf) ==
    LET r == kstrtouint(buf)
    IN  /\ IF sampling_ms_rejects(r)
           THEN /\ stats_last_error' = 0 - EINVAL
                /\ sampling_ms' = sampling_ms
           ELSE /\ sampling_ms' = r.val
                /\ stats_last_error' = 0
        /\ UNCHANGED <<threshold_mC, mode, stats_updates, stats_alerts,
                       simtemp_current_mC, simtemp_sample_seq, direction,
                       simtemp_timer, mode_copy, files, pc, fd, locals, hist,
                   simtemp_wq, probe>>

\* sampling_ms_store: parse, range test, assignment
sampling_ms_store(buf) ==
    LET r == kstrtouint(buf)
    IN  /\ IF sampling_ms_rejects(r)
           THEN /\ stats_last_error' = 0 - EINVAL
                /\ sampling_ms' = sampling_ms
           ELSE /\ sampling_ms' = r.val
                /\ stats_last_error' = stats_last_error
        /\ UNCHANGED <<threshold_mC, mode, stats_updates, stats_alerts,
                       simtemp_current_mC, simtemp_sample_seq, direction,
                       simtemp_timer, mode_copy, files, pc, fd, locals, hist,
                   simtemp_wq, probe>>

\* a range test that excludes the upper limit itself
threshold_mC_rejects_at_max(r) ==
    r.err < 0 \/ r.val < SIMTEMP_THRESHOLD_MC_MIN \/ r.val >= SIMTEMP_THRESHOLD_MC_MAX

\* the test of threshold_mC_store that leads to return -EINVAL
threshold_mC_rejects(r) ==
    r.err < 0 \/ r.val < SIMTEMP_THRESHOLD_MC_MIN \/ r.val > SIMTEMP_THRESHOLD_MC_MAX

\* a store that refuses the value the threshold already has
threshold_mC_store_rejects_same(buf) ==
    LET r == kstrtoint(buf)
    IN  /\ IF threshold_mC_rejects(r) \/ r.val = threshold_mC
           THEN /\ stats_last_error' = 0 - EINVAL
                /\ threshold_mC' = threshold_mC
           ELSE /\ threshold_mC' = r.val
                /\ stats_last_error' = stats_last_error
        /\ UNCHANGED <<sampling_ms, mode, stats_updates, stats_alerts,
                       simtemp_current_mC, simtemp_sample_seq, direction,
                       simtemp_timer, mode_copy, files, pc, fd, locals, hist,
                       simtemp_wq, probe>>

\* the value threshold_mC_store returns to the writer
threshold_mC_store_ret(buf) ==
    IF threshold_mC_rejects(kstrtoint(buf)) THEN 0 - EINVAL ELSE Len(buf)

threshold_mC_store(buf) ==
    LET r == kstrtoint(buf)
    IN  /\ IF threshold_mC_rejects(r)
           THEN /\ stats_last_error' = 0 - EINVAL
                /\ threshold_mC' = threshold_mC
           ELSE /\ threshold_mC' = r.val
                /\ stats_last_error' = stats_last_error
        /\ UNCHANGED <<sampling_ms, mode, stats_updates, stats_alerts,
                       simtemp_current_mC, simtemp_sample_seq, direction,
                       simtemp_timer, mode_copy, files, pc, fd, locals, hist,
                   simtemp_wq, probe>>

Min(a, b) == IF a < b THEN a ELSE b

\* strchr(mode_buf, '\n') and *newline = '\0': the text before the first newline
RECURSIVE UpToNewline(_)
UpToNewline(s) ==
    IF s = <<>> \/ Head(s) = "\n" THEN <<>>
    ELSE <<Head(s)>> \o UpToNewline(Tail(s))

\* the local mode_buf of mode_store after the newline was cut
ModeBuf(buf) == UpToNewline(SubSeq(buf, 1, Min(Len(buf), ModeBufSize - 1)))

IsModeToken(s) ==
    s = SIMTEMP_MODE_NORMAL \/ s = SIMTEMP_MODE_NOISY \/ s = SIMTEMP_MODE_RAMP

\* mode_store up to the validation: a rejected text returns -EINVAL, an
\* accepted one starts the copy into mode[]
mode_store(buf) ==
    /\ mode_copy = NULL
    /\ IF ~IsModeToken(ModeBuf(buf))
       THEN /\ stats_last_error' = 0 - EINVAL
            /\ mode_copy' = mode_copy
       ELSE /\ mode_copy' = [to |-> ModeBuf(buf), buf |-> buf]
            /\ stats_last_error' = stats_last_error
    /\ UNCHANGED <<sampling_ms, threshold_mC, mode, stats_updates, stats_alerts,
                   simtemp_current_mC, simtemp_sample_seq, direction,
                   simtemp_timer, files, pc, fd, locals, hist,
                   simtemp_wq, cli, probe>>

\* mode_store: strncpy(mode, mode_buf, sizeof(mode) - 1) completed, return count
mode_store_copy ==
    /\ mode_copy # NULL
    /\ mode' = SubSeq(mode_copy.to, 1, Min(Len(mode_copy.to), ModeBufSize - 1))
    /\ mode_copy' = NULL
    /\ UNCHANGED <<sampling_ms, threshold_mC, stats_updates, stats_alerts,
                   stats_last_error, simtemp_current_mC, simtemp_sample_seq,
                   direction, simtemp_timer, files, pc, fd, locals, hist,
                   simtemp_wq, cli, probe>>

(***************************************************************************)
(* The show side of the attributes: the text sprintf leaves in buf.        *)
(***************************************************************************)
\* sprintf(buf, "%u\n", sampling_ms)
sampling_ms_show == DecU(sampling_ms) \o <<"\n">>

\* a show that prints the magnitude only
threshold_mC_show_unsigned ==
    DecU(IF threshold_mC < 0 THEN 0 - threshold_mC ELSE threshold_mC) \o <<"\n">>

\* sprintf(buf, "%d\n", threshold_mC)
threshold_mC_show == DecI(threshold_mC) \o <<"\n">>

\* sprintf(buf, "%s\n", mode)
mode_show == mode \o <<"\n">>

(***************************************************************************)
(* simtemp_lock.  A region between mutex_lock and mutex_unlock is one      *)
(* step, so the mutex is free between steps, with one exception: a thread  *)
(* whose region was cut short by the timer callback (see                   *)
(* simtemp_update_temp_on_holder) keeps the mutex for good.                *)
(***************************************************************************)
LockAvailable == \A t \in Threads : pc[t] # "lock_held"

(***************************************************************************)
(* Files and per-file state.                                               *)
(***************************************************************************)
\* the character device exists: from cdev_add in nxp_simtemp_probe until
\* nxp_simtemp_remove, which is also the time the timer is in use
Registered == simtemp_timer.state # "deleted"

\* simtemp_open: a new struct file, private_data not yet allocated
simtemp_open(f) ==
    /\ Registered
    /\ ~is_open[f]
    /\ is_open' = [is_open EXCEPT ![f] = TRUE]
    /\ private_data' = [private_data EXCEPT ![f] = NULL]
    /\ UNCHANGED <<engine, simtemp_timer, mode_copy, pc, fd, locals, hist,
                   simtemp_wq, probe>>

\* a release that frees the session of every file
simtemp_release_all(f) ==
    /\ is_open[f]
    /\ \A t \in Threads : pc[t] = "idle" \/ fd[t] # f
    /\ is_open' = [is_open EXCEPT ![f] = FALSE]
    /\ private_data' = [g \in Files |-> NULL]
    /\ done_snaps' = [done_snaps EXCEPT ![f] = {}]
    /\ created_seq' = [created_seq EXCEPT ![f] = 0]
    /\ interrupted_at' = [interrupted_at EXCEPT ![f] = NULL]
    /\ UNCHANGED <<engine, simtemp_timer, mode_copy, pc, fd, locals, callhist,
                   simtemp_wq, cli, probe>>

\* simtemp_release: runs when the last reference to the file is dropped, so
\* no read() or poll() is in progress on it
simtemp_release(f) ==
    /\ is_open[f]
    /\ \A t \in Threads : pc[t] = "idle" \/ fd[t] # f
    /\ is_open' = [is_open EXCEPT ![f] = FALSE]
    /\ private_data' = [private_data EXCEPT ![f] = NULL]
    /\ done_snaps' = [done_snaps EXCEPT ![f] = {}]
    /\ created_seq' = [created_seq EXCEPT ![f] = 0]
    /\ interrupted_at' = [interrupted_at EXCEPT ![f] = NULL]
    /\ UNCHANGED <<engine, simtemp_timer, mode_copy, pc, fd, locals, callhist,
                   simtemp_wq, cli, probe>>

\* a file state left as kzalloc returned it
simtemp_get_file_state_zeroed(f, alloc_ok) ==
    IF private_data[f] # NULL THEN private_data[f]
    ELSE IF ~alloc_ok THEN NULL
    ELSE [last_seq |-> 0, last_alert_state |-> 0]

\* a file state re-initialized at every lookup
simtemp_get_file_state_refreshed(f, alloc_ok) ==
    IF private_data[f] = NULL /\ ~alloc_ok THEN NULL
    ELSE [last_seq |-> simtemp_sample_seq,
          last_alert_state |-> Polarity(simtemp_current_mC, threshold_mC)]

\* simtemp_get_file_state: the state of file f after the call; kzalloc
\* succeeds iff alloc_ok.  NULL when an allocation was needed and failed.
simtemp_get_file_state(f, alloc_ok) ==
    IF private_data[f] # NULL THEN private_data[f]
    ELSE IF ~alloc_ok THEN NULL
    ELSE [last_seq |-> simtemp_sample_seq,
          last_alert_state |-> Polarity(simtemp_current_mC, threshold_mC)]

\* simtemp_update_file_state: file->private_data after the call
simtemp_update_file_state(f, seq, al) ==
    LET state == simtemp_get_file_state(f, TRUE)
    IN  [state EXCEPT !.last_seq = seq, !.last_alert_state = al]

\* history of a get_file_state that may have created the session
CreatedSeqAfter(f, state) ==
    IF private_data[f] = NULL /\ state # NULL
    THEN [created_seq EXCEPT ![f] = simtemp_sample_seq]
    ELSE created_seq

\* the call of thread t returns: its locals are gone
Returned(t) ==
    /\ pc' = [pc EXCEPT ![t] = "idle"]
    /\ fd' = [fd EXCEPT ![t] = AnyFile]
    /\ prev_seq' = [prev_seq EXCEPT ![t] = 0]
    /\ last_alert_state' = [last_alert_state EXCEPT ![t] = 0]
    /\ alert' = [alert EXCEPT ![t] = 0]
    /\ sample' = [sample EXCEPT ![t] = NoSample]
    /\ snap_seq' = [snap_seq EXCEPT ![t] = 0]
    /\ snap_thr' = [snap_thr EXCEPT ![t] = 0]
    /\ entry_cursor' = [entry_cursor EXCEPT ![t] = 0]
    /\ seen_done' = [seen_done EXCEPT ![t] = {}]

(***************************************************************************)
(* poll().  mask is the value the call returns.                            *)
(***************************************************************************)
\* simtemp_poll: simtemp_get_file_state fails, return POLLERR
PollNoMem(t, f, mask) ==
    /\ pc[t] = "idle"
    /\ is_open[f]
    /\ simtemp_get_file_state(f, FALSE) = NULL
    /\ mask = POLLERR
    /\ UNCHANGED vars

\* simtemp_poll up to poll_wait
PollBegin(t, f) ==
    /\ pc[t] = "idle"
    /\ is_open[f]
    /\ (private_data[f] # NULL \/ LockAvailable)
    /\ LET state == simtemp_get_file_state(f, TRUE)
       IN  /\ private_data' = [private_data EXCEPT ![f] = state]
           /\ created_seq' = CreatedSeqAfter(f, state)
    /\ pc' = [pc EXCEPT ![t] = "poll_lock"]
    /\ fd' = [fd EXCEPT ![t] = f]
    /\ UNCHANGED <<engine, simtemp_timer, mode_copy, is_open, locals, callhist,
                   done_snaps, interrupted_at,
                   simtemp_wq, cli, probe>>

\* a mask that reports a new sample whatever the file state says
PollMask_always_readable(state) ==
    (POLLIN + POLLRDNORM)
  + (IF Polarity(simtemp_current_mC, threshold_mC) # state.last_alert_state
     THEN POLLPRI ELSE 0)

\* the mask simtemp_poll computes under simtemp_lock
PollMask(state) ==
    (IF simtemp_sample_seq # state.last_seq THEN POLLIN + POLLRDNORM ELSE 0)
  + (IF Polarity(simtemp_current_mC, threshold_mC) # state.last_alert_state
     THEN POLLPRI ELSE 0)

\* simtemp_poll: the region under simtemp_lock and the return
PollLocked(t, mask) ==
    /\ pc[t] = "poll_lock"
    /\ LockAvailable
    /\ mask = PollMask(private_data[fd[t]])
    /\ pc' = [pc EXCEPT ![t] = "idle"]
    /\ fd' = [fd EXCEPT ![t] = AnyFile]
    /\ UNCHANGED <<engine, simtemp_timer, mode_copy, files, locals, hist,
                   simtemp_wq, probe>>

(***************************************************************************)
(* read().  rv is the value the call returns.                              *)
(***************************************************************************)
\* simtemp_read: kzalloc fails in simtemp_get_file_state, which returns NULL
ReadNoMem(t, f) ==
    /\ pc[t] = "idle"
    /\ is_open[f]
    /\ simtemp_get_file_state(f, FALSE) = NULL
    /\ pc' = [pc EXCEPT ![t] = "read_nomem"]
    /\ fd' = [fd EXCEPT ![t] = f]
    /\ UNCHANGED <<engine, simtemp_timer, mode_copy, files, locals, hist,
                   simtemp_wq, cli, probe>>

\* simtemp_read: if (!state) return -ENOMEM
ReadNoMemReturn(t, rv) ==
    /\ pc[t] = "read_nomem"
    /\ rv = 0 - ENOMEM
    /\ Returned(t)
    /\ UNCHANGED <<engine, simtemp_timer, mode_copy, files, done_snaps,
                   created_seq, interrupted_at, simtemp_wq, cli, probe>>

\* simtemp_read: simtemp_get_file_state succeeds
ReadBegin(t, f) ==
    /\ pc[t] = "idle"
    /\ is_open[f]
    /\ (private_data[f] # NULL \/ LockAvailable)
    /\ LET state == simtemp_get_file_state(f, TRUE)
       IN  /\ private_data' = [private_data EXCEPT ![f] = state]
           /\ created_seq' = CreatedSeqAfter(f, state)
           /\ entry_cursor' = [entry_cursor EXCEPT ![t] = state.last_seq]
    /\ seen_done' = [seen_done EXCEPT ![t] =
                       IF private_data[f] = NULL THEN {} ELSE done_snaps[f]]
    /\ pc' = [pc EXCEPT ![t] = "read_prev"]
    /\ fd' = [fd EXCEPT ![t] = f]
    /\ UNCHANGED <<engine, simtemp_timer, mode_copy, is_open, locals, snap_seq,
                   snap_thr, done_snaps, interrupted_at,
                   simtemp_wq, cli, probe>>

\* simtemp_read: the first region under simtemp_lock
ReadPrev(t) ==
    /\ pc[t] = "read_prev"
    /\ LockAvailable
    /\ prev_seq' = [prev_seq EXCEPT ![t] = simtemp_sample_seq]
    /\ last_alert_state' = [last_alert_state EXCEPT ![t] =
                               Polarity(simtemp_current_mC, threshold_mC)]
    /\ pc' = [pc EXCEPT ![t] = "read_wait"]
    /\ UNCHANGED <<engine, simtemp_timer, mode_copy, files, fd, alert, sample, hist,
                   simtemp_wq, cli, probe>>

\* a wait that never blocks
WaitCondition_none(t) == TRUE

\* the condition of the wait_event_interruptible
WaitCondition(t) == simtemp_sample_seq # prev_seq[t]

\* wait_event_interruptible returns 0
ReadWake(t) ==
    /\ pc[t] = "read_wait"
    /\ LockAvailable
    /\ WaitCondition(t)
    /\ pc' = [pc EXCEPT ![t] = "read_snap"]
    /\ UNCHANGED <<engine, simtemp_timer, mode_copy, files, fd, locals, hist,
                   simtemp_wq, cli, probe>>

\* wait_event_interruptible returns -ERESTARTSYS: a signal is pending and
\* the condition is false
ReadInterrupt(t, rv) ==
    /\ pc[t] = "read_wait"
    /\ LockAvailable
    /\ ~WaitCondition(t)
    /\ stats_last_error' = 0 - ERESTARTSYS
    /\ rv = 0 - ERESTARTSYS
    /\ interrupted_at' = [interrupted_at EXCEPT ![fd[t]] = [seq |-> simtemp_sample_seq]]
    /\ Returned(t)
    /\ UNCHANGED <<config, stats_updates, stats_alerts, simtemp_current_mC,
                   simtemp_sample_seq, direction, simtemp_timer, mode_copy, files,
                   done_snaps, created_seq,
                   simtemp_wq, cli, probe>>

\* flags that never report the threshold
SampleFlags_new_only(al) == NEW_SAMPLE

\* sample.flags as simtemp_read builds it
SampleFlags(al) == IF al = 1 THEN NEW_SAMPLE + THRESHOLD_CROSSED ELSE NEW_SAMPLE

\* stats_alerts after the edge test of simtemp_read
\* a count of every snapshot
AlertsAfter_every_read(al, last) == (stats_alerts + 1) % CounterMod

\* if (alert != state->last_alert_state) stats_alerts++
AlertsAfter(al, last) ==
    IF al # last THEN (stats_alerts + 1) % CounterMod ELSE stats_alerts

\* simtemp_read: the second region under simtemp_lock
ReadSnap(t) ==
    /\ pc[t] = "read_snap"
    /\ LockAvailable
    /\ LET al == Polarity(simtemp_current_mC, threshold_mC)
       IN  /\ sample' = [sample EXCEPT ![t] =
                           [temp_mC |-> simtemp_current_mC, flags |-> SampleFlags(al)]]
           /\ alert' = [alert EXCEPT ![t] = al]
           /\ stats_alerts' = AlertsAfter(al, last_alert_state[t])
    /\ snap_seq' = [snap_seq EXCEPT ![t] = simtemp_sample_seq]
    /\ snap_thr' = [snap_thr EXCEPT ![t] = threshold_mC]
    /\ pc' = [pc EXCEPT ![t] = "read_copy"]
    /\ UNCHANGED <<config, stats_updates, stats_last_error, simtemp_current_mC,
                   simtemp_sample_seq, direction, simtemp_timer, mode_copy, files,
                   fd, prev_seq, last_alert_state, entry_cursor, seen_done,
                   done_snaps, created_seq, interrupted_at,
                   simtemp_wq, cli, probe>>

\* a commit that does not wrap
CommitSeq_unbounded(t) == prev_seq[t] + 1

\* the sequence number simtemp_read commits to the file state
CommitSeq(t) == (prev_seq[t] + 1) % CounterMod

\* a tail of simtemp_read that does not look at the result of copy_to_user
ReadResult_ignores_fault(count, copy_ok) ==
    IF count < SampleSize THEN 0 - EINVAL ELSE SampleSize

\* the value simtemp_read returns after the snapshot
ReadResult(count, copy_ok) ==
    IF count < SampleSize THEN 0 - EINVAL
    ELSE IF ~copy_ok THEN 0 - EFAULT
    ELSE SampleSize

\* simtemp_read after the snapshot: size check, copy_to_user, state update.
\* count is the size of the caller's buffer, copy_ok whether it is writable.
ReadCopy(t, count, copy_ok, rv) ==
    /\ pc[t] = "read_copy"
    /\ rv = ReadResult(count, copy_ok)
    /\ interrupted_at' = [interrupted_at EXCEPT ![fd[t]] = NULL]
    /\ IF rv < 0
       THEN /\ stats_last_error' = rv
            /\ UNCHANGED <<private_data, done_snaps>>
       ELSE /\ private_data' = [private_data EXCEPT ![fd[t]] =
                   simtemp_update_file_state(fd[t], CommitSeq(t), alert[t])]
            /\ done_snaps' = [done_snaps EXCEPT ![fd[t]] = @ \cup {snap_seq[t]}]
            /\ UNCHANGED stats_last_error
    /\ Returned(t)
    /\ UNCHANGED <<config, stats_updates, stats_alerts, simtemp_current_mC,
                   simtemp_sample_seq, direction, simtemp_timer, mode_copy, is_open,
                   created_seq,
                   simtemp_wq, probe>>

\* simtemp_read returns sizeof(sample): the buffer is large enough and writable
ReadSucceeds(t) == ReadCopy(t, SampleSize, TRUE, SampleSize)

(***************************************************************************)
(* The wait of simtemp_read and the wakeup of simtemp_update_temp step by  *)
(* step.  wait_event_interruptible(simtemp_wq, cond) tests cond; while it  *)
(* is false it loops over prepare_to_wait_event (the entry is put on the   *)
(* queue and the task is marked TASK_INTERRUPTIBLE), a test of cond, and   *)
(* schedule(), which returns once the task has been woken.  simtemp_wq[t]  *)
(* is "off" (no entry queued), "waiting" (queued, TASK_INTERRUPTIBLE) or   *)
(* "woken" (the task is runnable again: TASK_RUNNING).                     *)
(***************************************************************************)
\* a wake_up that reaches nobody
WakeUp_nobody(q) == q

\* wake_up_interruptible(&simtemp_wq): every queued task becomes runnable
WakeUp(q) == [t \in Threads |-> IF q[t] = "waiting" THEN "woken" ELSE q[t]]

\* simtemp_update_temp up to mutex_unlock: the timer has expired and its
\* callback has not yet reached wake_up_interruptible
simtemp_update_temp_unlock ==
    /\ simtemp_timer.state = "pending"
    /\ UpdateUnderLock
    /\ simtemp_timer' = [simtemp_timer EXCEPT !.state = "running"]
    /\ UNCHANGED <<config, stats_alerts, stats_last_error, mode_copy, files, pc, fd,
                   locals, hist, simtemp_wq, cli, probe>>

\* simtemp_update_temp after mutex_unlock: wake_up_interruptible, mod_timer
simtemp_update_temp_wake_up ==
    /\ simtemp_timer.state = "running"
    /\ simtemp_wq' = WakeUp(simtemp_wq)
    /\ simtemp_timer' = [state |-> "pending", ms |-> sampling_ms]
    /\ UNCHANGED <<engine, mode_copy, files, pc, fd, locals, hist, cli, probe>>

\* the pcs at which a thread is about to run a region under simtemp_lock
LockedRegions == {"poll_lock", "read_prev", "read_wait", "wait_check", "read_snap"}

\* simtemp_update_temp is a timer_list callback: it runs in softirq context,
\* on top of whatever task the timer interrupt found running.  When that
\* task is inside a region that holds simtemp_lock, the mutex_lock of the
\* callback cannot succeed, because the holder does not run again before
\* the callback returns: the callback never completes, the timer is never
\* re-armed and thread t keeps the mutex.
simtemp_update_temp_on_holder(t) ==
    /\ simtemp_timer.state = "pending"
    /\ pc[t] \in LockedRegions
    /\ LockAvailable
    /\ simtemp_timer' = [simtemp_timer EXCEPT !.state = "blocked"]
    /\ pc' = [pc EXCEPT ![t] = "lock_held"]
    /\ UNCHANGED <<engine, mode_copy, files, fd, locals, hist, simtemp_wq, cli, probe>>

\* wait_event_interruptible: the test of the condition before any queueing
WaitEnter(t) ==
    /\ pc[t] = "read_wait"
    /\ LockAvailable
    /\ pc' = [pc EXCEPT ![t] = IF WaitCondition(t) THEN "read_snap" ELSE "wait_prepare"]
    /\ UNCHANGED <<engine, simtemp_timer, mode_copy, files, fd, locals, hist,
                   simtemp_wq, cli, probe>>

\* prepare_to_wait_event: queue the entry, set TASK_INTERRUPTIBLE
WaitPrepare(t) ==
    /\ pc[t] = "wait_prepare"
    /\ simtemp_wq' = [simtemp_wq EXCEPT ![t] = "waiting"]
    /\ pc' = [pc EXCEPT ![t] = "wait_check"]
    /\ UNCHANGED <<engine, simtemp_timer, mode_copy, files, fd, locals, hist, cli, probe>>

\* the test of the condition inside the loop: true, finish_wait and go on
\* to the snapshot; false, call schedule().  The condition takes
\* simtemp_lock: when the mutex is contended, mutex_lock sleeps and comes
\* back with the task in TASK_RUNNING, so that schedule() returns at once.
WaitCheck(t) ==
    /\ pc[t] = "wait_check"
    /\ LockAvailable
    /\ IF WaitCondition(t)
       THEN /\ simtemp_wq' = [simtemp_wq EXCEPT ![t] = "off"]
            /\ pc' = [pc EXCEPT ![t] = "read_snap"]
       ELSE /\ \E contended \in BOOLEAN :
                  simtemp_wq' = IF contended THEN [simtemp_wq EXCEPT ![t] = "woken"]
                                ELSE simtemp_wq
            /\ pc' = [pc EXCEPT ![t] = "wait_sched"]
    /\ UNCHANGED <<engine, simtemp_timer, mode_copy, files, fd, locals, hist, cli, probe>>

\* schedule() returns: the task was woken, the loop starts over
WaitSchedule(t) ==
    /\ pc[t] = "wait_sched"
    /\ simtemp_wq[t] = "woken"
    /\ pc' = [pc EXCEPT ![t] = "wait_prepare"]
    /\ UNCHANGED <<engine, simtemp_timer, mode_copy, files, fd, locals, hist,
                   simtemp_wq, cli, probe>>

(***************************************************************************)
(* The driver with its callers.                                            *)
(***************************************************************************)
\* values read() can return
ReadResults == {SampleSize, 0 - EINVAL, 0 - EFAULT, 0 - ERESTARTSYS, 0 - ENOMEM}
\* values poll() can return
PollResults == {m + p : m \in {0, POLLIN + POLLRDNORM}, p \in {0, POLLPRI}} \cup {POLLERR}

\* The steps that hand something to their caller (open, the stores, the
\* returns of poll and read) say nothing about cli: here the caller is not
\* run_test_mode, whose locals stay as they are.
StorePeriod ==
    /\ \E v \in PeriodValues : sampling_ms_store(EndlU(v))
    /\ UNCHANGED cli
StoreThreshold ==
    /\ \E v \in ThresholdValues : threshold_mC_store(EndlI(v))
    /\ UNCHANGED cli
MoveThreshold ==
    /\ \E v \in AlertThresholds : threshold_mC_store(EndlI(v))
    /\ UNCHANGED cli
StoreMode      == \E s \in ModeTexts : mode_store(s)
Open(F) ==
    /\ \E f \in F : simtemp_open(f)
    /\ UNCHANGED cli
Release(F) == \E f \in F : simtemp_release(f)
Poll(T, F) == \E t \in T, f \in F : PollBegin(t, f)
PollFail(T, F) == \E t \in T, f \in F, m \in PollResults : PollNoMem(t, f, m)
PollReturn ==
    /\ \E t \in Threads, m \in PollResults : PollLocked(t, m)
    /\ UNCHANGED cli
Read(T, F) == \E t \in T, f \in F : ReadBegin(t, f)
ReadFail(T, F) == \E t \in T, f \in F : ReadNoMem(t, f)
ReadNoMemory == \E t \in Threads, rv \in ReadResults : ReadNoMemReturn(t, rv)
ReadRecord == \E t \in Threads : ReadPrev(t)
ReadWoken  == \E t \in Threads : ReadWake(t)
ReadSignal == \E t \in Threads, rv \in ReadResults : ReadInterrupt(t, rv)
ReadSnapshot == \E t \in Threads : ReadSnap(t)
ReadReturn ==
    /\ \E t \in Threads, count \in ReadCounts, copy_ok \in BOOLEAN,
          rv \in ReadResults : ReadCopy(t, count, copy_ok, rv)
    /\ UNCHANGED cli

\* one open file shared by every thread, with the timer callback and the
\* threshold store running against read() and poll()
Next ==
    \/ Tick
    \/ MoveThreshold
    \/ Open(SharedFile)
    \/ Release(SharedFile)
    \/ Poll(Threads, SharedFile)
    \/ PollReturn
    \/ Read(Threads, SharedFile)
    \/ ReadRecord
    \/ ReadWoken
    \/ ReadSignal
    \/ ReadSnapshot
    \/ ReadReturn

Spec == Init /\ [][Next]_vars

\* the same, with kzalloc failing in read() at any moment
NextNoMem ==
    \/ Next
    \/ ReadFail(Threads, SharedFile)
    \/ ReadNoMemory

SpecNoMem == Init /\ [][NextNoMem]_vars

\* nxp_simtemp_remove: del_timer_sync, then the device is torn down; files
\* already open stay usable until they are released
nxp_simtemp_remove ==
    /\ Registered
    /\ probe = "done"
    /\ simtemp_timer' = [simtemp_timer EXCEPT !.state = "deleted"]
    /\ probe' = "none"
    /\ UNCHANGED <<engine, mode_copy, files, pc, fd, locals, hist,
                   simtemp_wq, cli>>

\* the same, with the driver removed at any moment
NextStop ==
    \/ Next
    \/ nxp_simtemp_remove

SpecStop == Init /\ [][NextStop]_vars

(***************************************************************************)
(* nxp_simtemp_probe, run when the platform device is bound to the driver: *)
(* at module load, and again after an unbind (nxp_simtemp_remove) and a    *)
(* bind through sysfs, which leave the static variables as they are.       *)
(***************************************************************************)
\* the registration steps of nxp_simtemp_probe that can fail
ProbeSteps == {"alloc_chrdev_region", "class_create", "device_create", "cdev_add"}

\* nxp_simtemp_probe: init_waitqueue_head, simtemp_sample_seq = 0,
\* timer_setup and mod_timer
nxp_simtemp_probe_arm ==
    /\ probe = "none"
    /\ simtemp_sample_seq' = 0
    /\ simtemp_timer' = [state |-> "pending", ms |-> sampling_ms]
    /\ probe' = "armed"
    /\ UNCHANGED <<config, stats_updates, stats_alerts, stats_last_error,
                   simtemp_current_mC, direction, mode_copy, files, pc, fd,
                   locals, hist, simtemp_wq, cli>>

\* nxp_simtemp_probe from alloc_chrdev_region on: failed is the step that
\* fails, or "none"; a failing step undoes the registrations made so far
\* and returns the error
nxp_simtemp_probe_register(failed) ==
    /\ probe = "armed"
    /\ probe' = IF failed \in ProbeSteps THEN "failed" ELSE "done"
    /\ UNCHANGED <<engine, simtemp_timer, mode_copy, files, pc, fd, locals, hist,
                   simtemp_wq, cli>>

ProbeRegister == \E failed \in ProbeSteps \cup {"none"} : nxp_simtemp_probe_register(failed)

\* the device is probed, configured through sysfs while bound, unbound and
\* probed again, with the timer firing whenever it is armed
NextProbe ==
    \/ nxp_simtemp_probe_arm
    \/ ProbeRegister
    \/ Tick
    \/ probe = "done" /\ StorePeriod
    \/ probe = "done" /\ StoreThreshold
    \/ probe = "done" /\ StoreMode
    \/ mode_store_copy
    \/ nxp_simtemp_remove

SpecProbe == InitProbe /\ [][NextProbe]_vars

\* one thread that holds every file: sessions side by side
NextSessions ==
    \/ Tick
    \/ MoveThreshold
    \/ Open(Files)
    \/ Release(Files)
    \/ Poll(Reader, Files)
    \/ PollReturn
    \/ Read(Reader, Files)
    \/ ReadRecord
    \/ ReadWoken
    \/ ReadSignal
    \/ ReadSnapshot
    \/ ReadReturn

SpecSessions == Init /\ [][NextSessions]_vars

\* the configuration surface: the three stores against the timer callback
NextConfig ==
    \/ Tick
    \/ StorePeriod
    \/ StoreThreshold
    \/ StoreMode
    \/ mode_store_copy

SpecConfig == Init /\ [][NextConfig]_vars

SelectMode == \E s \in ModeTokens : mode_store(s)

\* the generators over any number of ticks, with the mode switched at any
\* moment; the counters wrap at CounterMod
NextGen ==
    \/ simtemp_update_temp
    \/ SelectMode
    \/ mode_store_copy

SpecGen == Init /\ [][NextGen]_vars

\* the timer fires, at most ScenarioTicks times
ScenarioTick == stats_updates < ScenarioTicks /\ simtemp_update_temp

ScenarioPeriod ==
    /\ \E v \in ScenarioPeriods : sampling_ms_store(EndlU(v))
    /\ UNCHANGED cli
ScenarioThreshold ==
    /\ threshold_mC_store(EndlI(44015))
    /\ UNCHANGED cli
ScenarioMode      == mode_store(SIMTEMP_MODE_RAMP \o <<"\n">>)

\* the end-to-end scenarios: one consumer that reads record after record
\* from the start of the engine, while the scenario values are written to
\* the three attributes
NextScenario ==
    \/ ScenarioTick
    \/ ScenarioPeriod
    \/ ScenarioThreshold
    \/ ScenarioMode
    \/ mode_store_copy
    \/ Open(SharedFile)
    \/ Read(Reader, SharedFile)
    \/ ReadRecord
    \/ ReadWoken
    \/ ReadSnapshot
    \/ ReadReturn

SpecScenario == Init /\ [][NextScenario]_vars

\* the timer expires, at most MaxTicks times
TickUnlock == stats_updates < MaxTicks /\ simtemp_update_temp_unlock

WaitEntered   == \E t \in Threads : WaitEnter(t)
WaitPrepared  == \E t \in Threads : WaitPrepare(t)
WaitChecked   == \E t \in Threads : WaitCheck(t)
WaitScheduled == \E t \in Threads : WaitSchedule(t)

\* readers on one file against the timer callback, with the wait and the
\* wakeup taken step by step
NextWake ==
    \/ TickUnlock
    \/ simtemp_update_temp_wake_up
    \/ ScenarioPeriod
    \/ Poll(Threads, SharedFile)
    \/ PollReturn
    \/ Open(SharedFile)
    \/ Read(Threads, SharedFile)
    \/ ReadRecord
    \/ WaitEntered
    \/ WaitPrepared
    \/ WaitChecked
    \/ WaitScheduled
    \/ ReadSnapshot
    \/ ReadReturn

SpecWake == Init /\ [][NextWake]_vars

\* the timer interrupt arrives on the CPU of a thread that holds simtemp_lock
TickOnHolder ==
    /\ stats_updates < MaxTicks
    /\ \E t \in Threads : simtemp_update_temp_on_holder(t)

\* the same, with the callback also running on top of a lock holder
NextLive ==
    \/ NextWake
    \/ TickOnHolder

\* Scheduling: the armed timer expires and its callback runs to its end, and
\* a thread inside read() that can take a step is eventually given the CPU.
Fairness ==
    /\ WF_vars(TickUnlock)
    /\ WF_vars(simtemp_update_temp_wake_up)
    /\ \A t \in Threads :
          /\ WF_vars(ReadPrev(t))
          /\ WF_vars(WaitEnter(t))
          /\ WF_vars(WaitPrepare(t))
          /\ WF_vars(WaitCheck(t))
          /\ WF_vars(WaitSchedule(t))
          /\ WF_vars(ReadSnap(t))
          /\ WF_vars(UNCHANGED cli /\ \E count \in ReadCounts, copy_ok \in BOOLEAN,
                                       rv \in ReadResults : ReadCopy(t, count, copy_ok, rv))

SpecLive == Init /\ [][NextLive]_vars /\ Fairness

(***************************************************************************)
(* The CLI: run_test_mode, the self-test behind "--test".  Its calls into  *)
(* the driver are the driver's own steps; cli holds its locals and the     *)
(* statement it has reached.  The statements of the test take             *)
(* microseconds and the timer period is a millisecond at least             *)
(* (SIMTEMP_SAMPLING_MS_MIN), so the callback runs while the test has not  *)
(* started or is blocked in select() or read(); and select() is given no   *)
(* timeout, the period being shorter than the 500 ms and period + 100 ms   *)
(* it waits.                                                               *)
(***************************************************************************)
CliThread == "t1"
CliFile   == "f1"

\* f >> curr_ms on an ifstream: the leading decimal digits of the text
IstreamU(s) == ParseDigits(s, 1, 0).val

\* sysfs::get_sampling_period_ms
get_sampling_period_ms == IstreamU(sampling_ms_show)

\* sample.flags & THRESHOLD_CROSSED
HasCrossed(flags) == (flags \div THRESHOLD_CROSSED) % 2 = 1

\* dev.open_device()
TestOpen ==
    /\ cli.pc = "none"
    /\ simtemp_open(CliFile)
    /\ cli' = [cli EXCEPT !.pc = "select_first"]

\* read_sample: select() calls simtemp_poll
TestSelect ==
    /\ cli.pc \in {"select_first", "select"}
    /\ PollBegin(CliThread, CliFile)

\* read_sample: simtemp_poll returns; select() goes on waiting until the
\* mask reports the descriptor readable
TestSelected ==
    /\ cli.pc \in {"select_first", "select"}
    /\ LET mask == PollMask(private_data[CliFile])
       IN  /\ PollLocked(CliThread, mask)
           /\ cli' = IF mask % 2 = POLLIN
                     THEN [cli EXCEPT !.pc = IF cli.pc = "select_first"
                                             THEN "read_first" ELSE "read"]
                     ELSE cli

\* read_sample: read(fd_, &sample, sizeof(sample))
TestRead ==
    /\ cli.pc \in {"read_first", "read"}
    /\ ReadBegin(CliThread, CliFile)

\* simtemp_read on behalf of the test, up to the snapshot
TestReadStep ==
    \/ ReadPrev(CliThread)
    \/ ReadWake(CliThread)
    \/ ReadSnap(CliThread)

\* the initial read_sample returns: low_threshold and period are computed
TestFirstSample ==
    /\ cli.pc = "read_first"
    /\ ReadCopy(CliThread, SampleSize, TRUE, SampleSize)
    /\ cli' = [cli EXCEPT !.pc = "set_threshold",
                          !.sample = sample[CliThread],
                          !.period = IF get_sampling_period_ms < 10 THEN 10
                                     ELSE get_sampling_period_ms]

\* sysfs::set_threshold_mC(low_threshold), return 2 when it fails
TestSetThreshold ==
    /\ cli.pc = "set_threshold"
    /\ LET buf == EndlI(cli.sample.temp_mC - 100)
       IN  /\ threshold_mC_store(buf)
           /\ cli' = [cli EXCEPT !.pc = IF threshold_mC_store_ret(buf) < 0
                                        THEN "error" ELSE "set_period"]

\* sysfs::set_sampling_period_ms(period), then the loop starts
TestSetPeriod ==
    /\ cli.pc = "set_period"
    /\ sampling_ms_store(EndlU(cli.period))
    /\ cli' = [cli EXCEPT !.pc = "select", !.period_count = 0]

\* a read_sample of the loop returns: PASS on THRESHOLD_CROSSED, FAIL
\* after the second sample without it
TestLoopSample ==
    /\ cli.pc = "read"
    /\ ReadCopy(CliThread, SampleSize, TRUE, SampleSize)
    /\ cli' = [cli EXCEPT !.sample = sample[CliThread],
                          !.period_count = IF HasCrossed(sample[CliThread].flags)
                                           THEN @ ELSE @ + 1,
                          !.pc = IF HasCrossed(sample[CliThread].flags) THEN "pass"
                                 ELSE IF cli.period_count + 1 < 2 THEN "select"
                                 ELSE "fail"]

\* the test is not running, or sleeps in select() or in the wait of read()
TestBlocked ==
    \/ cli.pc = "none"
    \/ /\ cli.pc \in {"select_first", "select"}
       /\ pc[CliThread] = "idle"
       /\ private_data[CliFile] # NULL
       /\ PollMask(private_data[CliFile]) % 2 # POLLIN
    \/ /\ pc[CliThread] = "read_wait"
       /\ ~WaitCondition(CliThread)

\* the timer fires while the test is blocked
TestTick == TestBlocked /\ simtemp_update_temp

\* the self-test started at any moment of an engine running in normal mode
NextTest ==
    \/ TestTick
    \/ TestOpen
    \/ TestSelect
    \/ TestSelected
    \/ TestRead
    \/ TestReadStep
    \/ TestFirstSample
    \/ TestSetThreshold
    \/ TestSetPeriod
    \/ TestLoopSample

SpecTest == Init /\ [][NextTest]_vars

(***************************************************************************)
(* Properties.                                                             *)
(***************************************************************************)

\* C1: two reads on one session, the second issued after the first returned
\* successfully, never deliver the same sample: the snapshot of the second
\* carries a later sample_seq than every snapshot delivered before it.
C1_SuccessiveReadsDiffer ==
    \A t \in Threads :
        pc[t] = "read_copy" => \A s \in seen_done[t] : snap_seq[t] > s

\* a read issued after an earlier read of the session succeeded holds its snapshot
C1_SecondReadMaterialized ==
    \E t \in Threads : pc[t] = "read_copy" /\ seen_done[t] # {}

\* C2: a session that keeps up receives every tick: a read that found at
\* most one undelivered tick when it recorded its position, and during which
\* at most one tick occurred, delivers the tick right after the session's cursor.
C2_NoTickSkipped ==
    \A t \in Threads :
        (/\ pc[t] = "read_copy"
         /\ (prev_seq[t] - entry_cursor[t] + CounterMod) % CounterMod <= 1
         /\ (snap_seq[t] - prev_seq[t] + CounterMod) % CounterMod <= 1)
        => snap_seq[t] = (entry_cursor[t] + 1) % CounterMod

\* C3: the position a read records, and blocks on, is the session's last_seq:
\* a read on a session with an undelivered tick does not wait for a further one.
C3_WaitsOnSessionCursor ==
    \A t \in Threads :
        pc[t] \in {"read_wait", "read_snap", "read_copy"}
        => prev_seq[t] = entry_cursor[t]

\* C4: a successful read leaves the session's last_seq equal to the sample_seq
\* of its snapshot and last_alert equal to the polarity of its snapshot.
C4_CommitsSnapshot ==
    [][\A t \in Threads :
          ReadSucceeds(t) =>
             /\ private_data'[fd[t]].last_seq = snap_seq[t]
             /\ private_data'[fd[t]].last_alert_state
                   = Polarity(sample[t].temp_mC, snap_thr[t])]_vars

\* C5: when a read materializes its sample, alerts is incremented exactly
\* when the polarity differs from the last_alert recorded in the session.
C5_AlertsCountSessionEdges ==
    [][\A t \in Threads :
          ReadSnap(t) =>
             stats_alerts' =
                IF Polarity(simtemp_current_mC, threshold_mC)
                      # private_data[fd[t]].last_alert_state
                THEN (stats_alerts + 1) % CounterMod
                ELSE stats_alerts]_vars

\* C6: a session is created with last_seq = the current sample_seq and
\* last_alert = the current polarity, and the snapshot of a read is a sample
\* produced after the session was created.
C6_FreshSessionStartsAtCurrent ==
    /\ [](\A t \in Threads :
             pc[t] = "read_copy" => snap_seq[t] > created_seq[fd[t]])
    /\ [][\A f \in Files :
             private_data[f] = NULL /\ private_data'[f] # NULL =>
                private_data'[f] =
                   [last_seq |-> simtemp_sample_seq,
                    last_alert_state |->
                        Polarity(simtemp_current_mC, threshold_mC)]]_vars

\* the first read of a session created when samples already existed holds
\* its snapshot
C6_FirstReadAfterSamples ==
    \E t \in Threads :
        /\ pc[t] = "read_copy"
        /\ seen_done[t] = {}
        /\ created_seq[fd[t]] >= 1

\* C7: poll returns READABLE exactly when sample_seq differs from the
\* session's last_seq and PRIORITY exactly when the polarity differs from the
\* session's last_alert, each bit independently of the other.
C7_PollMaskMeaning ==
    [][\A t \in Threads, m \in PollResults :
          PollLocked(t, m) =>
             /\ ((m \div POLLIN) % 2 = 1
                    <=> simtemp_sample_seq # private_data[fd[t]].last_seq)
             /\ ((m \div POLLRDNORM) % 2 = 1
                    <=> simtemp_sample_seq # private_data[fd[t]].last_seq)
             /\ ((m \div POLLPRI) % 2 = 1
                    <=> Polarity(simtemp_current_mC, threshold_mC)
                           # private_data[fd[t]].last_alert_state)]_vars

\* a poll is about to return PRIORITY without READABLE
C7_PriorityWithoutReadable ==
    \E t \in Threads :
        /\ pc[t] = "poll_lock"
        /\ simtemp_sample_seq = private_data[fd[t]].last_seq
        /\ Polarity(simtemp_current_mC, threshold_mC)
              # private_data[fd[t]].last_alert_state

\* C8: poll changes neither an existing session nor the engine state, and an
\* existing session changes only in the step of a successful read.
C8_PollIsPure ==
    [][/\ \A t \in Threads, f \in Files :
             PollBegin(t, f) /\ private_data[f] # NULL
                => UNCHANGED <<private_data, engine>>
       /\ \A t \in Threads, m \in PollResults :
             PollLocked(t, m) => UNCHANGED <<private_data, engine>>
       /\ \A f \in Files :
             (/\ private_data[f] # NULL
              /\ private_data'[f] # NULL
              /\ private_data'[f] # private_data[f])
             => \E t \in Threads : fd[t] = f /\ ReadSucceeds(t)]_vars

\* a poll runs on a session that has read before and has a tick pending
C8_PollOnUsedSession ==
    \E t \in Threads :
        /\ pc[t] = "poll_lock"
        /\ done_snaps[fd[t]] # {}
        /\ simtemp_sample_seq # private_data[fd[t]].last_seq

\* C9: the record a read delivers has flag bit 0 set, bit 1 set exactly when
\* its temp_mC >= the threshold at the moment of the snapshot, and no other bit.
C9_FlagsOfRecord ==
    \A t \in Threads :
        pc[t] = "read_copy" =>
           /\ sample[t].flags % 2 = 1
           /\ ((sample[t].flags \div 2) % 2 = 1 <=> sample[t].temp_mC >= snap_thr[t])
           /\ sample[t].flags \div 4 = 0

\* a record with the threshold bit, held while the threshold has since been
\* raised above its temperature
C9_CrossedAtSnapshotOnly ==
    \E t \in Threads :
        /\ pc[t] = "read_copy"
        /\ sample[t].flags = 3
        /\ sample[t].temp_mC < threshold_mC

\* C10: writing v to sampling_ms is accepted exactly when 1 <= v <= 10000;
\* accepted, sampling_ms becomes v; rejected, sampling_ms keeps its value and
\* last_error becomes -EINVAL.
C10_PeriodStore ==
    [][\A v \in PeriodValues :
          sampling_ms_store(EndlU(v)) =>
             IF 1 <= v /\ v <= 10000
             THEN /\ sampling_ms_store_ret(EndlU(v)) = Len(EndlU(v))
                  /\ sampling_ms' = v
             ELSE /\ sampling_ms_store_ret(EndlU(v)) = 0 - EINVAL
                  /\ sampling_ms' = sampling_ms
                  /\ stats_last_error' = 0 - EINVAL]_vars

\* a period of 250 ms was accepted and a later store was rejected
C10_AcceptedThenRejected ==
    /\ sampling_ms = 250
    /\ stats_last_error = 0 - EINVAL
    /\ simtemp_timer.ms = 250

\* C11: writing v to threshold_mC is accepted exactly when
\* -20000 <= v <= 60000; accepted, threshold_mC becomes v and the polarity
\* evaluated from then on compares with v; rejected, threshold_mC keeps its
\* value and last_error becomes -EINVAL.
C11_ThresholdStore ==
    [][\A v \in ThresholdValues :
          threshold_mC_store(EndlI(v)) =>
             IF -20000 <= v /\ v <= 60000
             THEN /\ threshold_mC_store_ret(EndlI(v)) = Len(EndlI(v))
                  /\ threshold_mC' = v
                  /\ Polarity(simtemp_current_mC', threshold_mC')
                        = (IF simtemp_current_mC >= v THEN 1 ELSE 0)
             ELSE /\ threshold_mC_store_ret(EndlI(v)) = 0 - EINVAL
                  /\ threshold_mC' = threshold_mC
                  /\ stats_last_error' = 0 - EINVAL]_vars

\* the upper limit 60000 was accepted and a later store was rejected
C11_LimitAcceptedThenRejected ==
    /\ threshold_mC = 60000
    /\ stats_last_error = 0 - EINVAL

\* C12: a text written to mode is accepted exactly when, with at most one
\* trailing newline removed, it is "normal", "noisy" or "ramp"; accepted, that
\* token is what gets copied into mode; otherwise mode keeps its value and
\* last_error becomes -EINVAL.
C12_ModeStore ==
    [][\A s \in ModeTexts :
          mode_store(s) =>
             LET tok == IF s # <<>> /\ s[Len(s)] = "\n"
                        THEN SubSeq(s, 1, Len(s) - 1) ELSE s
             IN  IF tok \in {SIMTEMP_MODE_NORMAL, SIMTEMP_MODE_NOISY, SIMTEMP_MODE_RAMP}
                 THEN mode_copy' # NULL /\ mode_copy'.to = tok
                 ELSE /\ mode_copy' = NULL
                      /\ mode' = mode
                      /\ stats_last_error' = 0 - EINVAL]_vars

\* C13: engine state is changed only under the engine mutex, so no other
\* context runs against it while a change is in progress: once mode_store has
\* begun to write mode, the next step on engine state is the end of that write.
C13_MutationsExcludeOthers ==
    [][mode_copy # NULL => mode_store_copy]_vars

\* C14: when the driver is removed while readers are blocked in read, every
\* waiter is released: after the removal no reader is left in the wait with a
\* condition that is false and that nothing will make true.
C14_StopReleasesWaiters ==
    simtemp_timer.state = "deleted" =>
       \A t \in Threads : pc[t] = "read_wait" => WaitCondition(t)

\* C15: after a tick executed in mode M the reading is within M's bounds:
\* normal in [44000, 46010], ramp in [44000, 46000], noisy in [44000, 46000],
\* whatever ticks and accepted mode changes came before.
C15_ReadingWithinModeBounds ==
    [][(simtemp_update_temp /\ mode_copy = NULL) =>
          /\ simtemp_current_mC' >= 44000
          /\ simtemp_current_mC' <= (IF mode = SIMTEMP_MODE_NORMAL THEN 46010 ELSE 46000)]_vars

\* C16: a tick applies one generator step and adds exactly one to updates
\* and to sample_seq in one critical section, so the reading always belongs
\* to the sequence number: in normal mode from the initial 44000 the reading
\* is 44000 + 10 * sample_seq, updates equals sample_seq, and a reader's
\* snapshot taken under the mutex pairs the reading with its sequence number.
C16_ReadingMatchesSequence ==
    /\ stats_updates = simtemp_sample_seq
    /\ simtemp_current_mC = 44000 + 10 * simtemp_sample_seq
    /\ \A t \in Threads :
          pc[t] = "read_copy" => sample[t].temp_mC = 44000 + 10 * snap_seq[t]

\* a reader holds the sample of the second tick
C16_SecondSampleObserved ==
    \E t \in Threads :
        /\ pc[t] = "read_copy"
        /\ snap_seq[t] = 2
        /\ sample[t].temp_mC = 44020

\* C17: a read interrupted in its wait returns -ERESTARTSYS and leaves the
\* session as it was, and the next read on the session delivers the first
\* sample produced after the interruption, provided the reader missed no
\* tick: at most one tick between the interruption and the moment the next
\* read recorded its position, and at most one tick during that read.
C17_ReadAfterInterrupt ==
    \A t \in Threads :
        (/\ pc[t] = "read_copy"
         /\ interrupted_at[fd[t]] # NULL
         /\ (prev_seq[t] - interrupted_at[fd[t]].seq + CounterMod) % CounterMod <= 1
         /\ (snap_seq[t] - prev_seq[t] + CounterMod) % CounterMod <= 1)
        => snap_seq[t] = (interrupted_at[fd[t]].seq + 1) % CounterMod

\* C18: a read that ends interrupted leaves last_error as it was.
C18_InterruptKeepsLastError ==
    [][\A t \in Threads, rv \in ReadResults :
          ReadInterrupt(t, rv) => stats_last_error' = stats_last_error]_vars

\* C19: a read whose buffer is smaller than the 16-byte record, or whose copy
\* to the caller fails, returns a negative value, sets last_error (-EINVAL
\* for the size, -EFAULT for the copy) and leaves every session unchanged.
C19_FailedDelivery ==
    [][\A t \in Threads, count \in ReadCounts, copy_ok \in BOOLEAN, rv \in ReadResults :
          (ReadCopy(t, count, copy_ok, rv) /\ (count < 16 \/ ~copy_ok)) =>
             /\ rv = (IF count < 16 THEN 0 - EINVAL ELSE 0 - EFAULT)
             /\ stats_last_error' = rv
             /\ private_data' = private_data]_vars

\* a copy to the caller failed on a session that exists
C19_CopyFailed ==
    /\ stats_last_error = 0 - EFAULT
    /\ \E f \in Files : private_data[f] # NULL

\* C20: a read that fails leaves the counters as they were when it was
\* issued; in particular it has not counted an alert: no read that fails
\* after its snapshot has incremented alerts in that snapshot.
C20_FailedReadCountsNothing ==
    [][\A t \in Threads, count \in ReadCounts, copy_ok \in BOOLEAN, rv \in ReadResults :
          (ReadCopy(t, count, copy_ok, rv) /\ rv < 0) =>
             alert[t] = last_alert_state[t]]_vars

\* C21: last_error is sticky: an accepted store to sampling_ms, threshold_mC
\* or mode, and a successful read, leave last_error as it was; so after the
\* rejected 0 and the accepted 250, sampling_ms is 250 and last_error is
\* still -EINVAL.
C21_LastErrorSticky ==
    [][/\ \A v \in ScenarioPeriods :
             (sampling_ms_store(EndlU(v)) /\ sampling_ms' = v)
                => (stats_last_error' = stats_last_error /\ v = 250)
       /\ (ScenarioThreshold /\ threshold_mC' = 44015)
             => stats_last_error' = stats_last_error
       /\ (ScenarioMode /\ mode_copy' # NULL) => stats_last_error' = stats_last_error
       /\ mode_store_copy => stats_last_error' = stats_last_error
       /\ \A t \in Threads : ReadSucceeds(t) => stats_last_error' = stats_last_error
       /\ (stats_last_error # 0 /\ stats_last_error' # stats_last_error)
             => stats_last_error' < 0]_vars

\* the period is 250 after the rejected 0, and a read has succeeded since
C21_AcceptedAfterRejected ==
    /\ sampling_ms = 250
    /\ stats_last_error = 0 - EINVAL
    /\ done_snaps["f1"] # {}

\* C22: the engine never stops ticking (the callback is pending or running
\* at any time); every tick re-arms the timer with the sampling_ms
\* configured at that moment, and a store to sampling_ms leaves the pending
\* timer as it was armed.
C22_RearmWithCurrentPeriod ==
    /\ [](simtemp_timer.state \in {"pending", "running"})
    /\ [][/\ (simtemp_update_temp \/ simtemp_update_temp_wake_up)
                => simtemp_timer' = [state |-> "pending", ms |-> sampling_ms]
          /\ \A v \in PeriodValues :
                sampling_ms_store(EndlU(v)) => simtemp_timer' = simtemp_timer]_vars

\* C30: no wakeup is lost.  The callback wakes the queue after sample_seq
\* was incremented, so a reader asleep in its wait although sample_seq
\* differs from its prev_seq is only ever found between the increment and
\* the wake_up that follows it, and a waiter that goes on to take the mutex
\* for its snapshot sees sample_seq # prev_seq.
C30_NoLostWakeup ==
    \A t \in Threads :
        /\ (pc[t] = "wait_sched" /\ simtemp_wq[t] = "waiting"
               /\ simtemp_sample_seq # prev_seq[t])
              => simtemp_timer.state = "running"
        /\ pc[t] = "read_snap" => simtemp_sample_seq # prev_seq[t]

\* a reader found the condition false, the tick came before it called
\* schedule(), and the wake_up has reached it
C30_WokenBeforeSleeping ==
    \E t \in Threads :
        /\ pc[t] = "wait_sched"
        /\ simtemp_wq[t] = "woken"
        /\ simtemp_sample_seq # prev_seq[t]

\* C23: while the timer callback still runs, every reader inside the wait of
\* read() eventually returns from its call.
C23_WaitersReturn ==
    \A t \in Threads :
        (pc[t] \in {"read_wait", "wait_prepare", "wait_check", "wait_sched"}
            /\ stats_updates < MaxTicks)
        ~> pc[t] = "idle"

\* C24: round trip.  A store that accepts the text of a value V leaves the
\* attribute showing the text of V (sampling_ms and threshold_mC); a
\* completed store of a mode token leaves mode showing that token; and what
\* an attribute shows changes only in a write to it.
C24_RoundTrip ==
    [][/\ \A v \in PeriodValues \cap (SIMTEMP_SAMPLING_MS_MIN..SIMTEMP_SAMPLING_MS_MAX) :
            sampling_ms_store(EndlU(v)) => sampling_ms_show' = EndlU(v)
       /\ \A v \in ThresholdValues \cap (SIMTEMP_THRESHOLD_MC_MIN..SIMTEMP_THRESHOLD_MC_MAX) :
            threshold_mC_store(EndlI(v)) => threshold_mC_show' = EndlI(v)
       /\ (mode_store_copy /\ mode_copy.buf \in ModeTokens)
                => mode_show' = mode_copy.buf
       /\ sampling_ms' # sampling_ms
                => \E v \in PeriodValues : sampling_ms_store(EndlU(v))
       /\ threshold_mC' # threshold_mC
                => \E v \in ThresholdValues : threshold_mC_store(EndlI(v))
       /\ mode' # mode => mode_store_copy]_vars

\* each attribute shows a value that was written to it
C24_WrittenValuesShown ==
    /\ sampling_ms_show = EndlU(SIMTEMP_SAMPLING_MS_MAX)
    /\ threshold_mC_show = EndlI(SIMTEMP_THRESHOLD_MC_MIN)
    /\ mode_show = SIMTEMP_MODE_RAMP \o <<"\n">>
    /\ stats_updates >= 1

\* C25: idempotence.  Writing to an attribute the valid value it already
\* holds changes nothing of the engine: not the configuration, not the
\* reading, not updates, alerts or last_error, and not the armed timer.
C25_SameValueAgain ==
    [][/\ \A v \in PeriodValues :
            (sampling_ms = v /\ sampling_ms_store(EndlU(v))
                /\ ~sampling_ms_rejects(kstrtouint(EndlU(v))))
                => UNCHANGED <<engine, simtemp_timer>>
       /\ \A v \in ThresholdValues :
            (threshold_mC = v /\ threshold_mC_store(EndlI(v))
                /\ ~threshold_mC_rejects(kstrtoint(EndlI(v))))
                => UNCHANGED <<engine, simtemp_timer>>
       /\ \A s \in ModeTokens :
            (mode = ModeBuf(s) /\ mode_store(s)) => UNCHANGED <<engine, simtemp_timer>>
       /\ (mode_copy # NULL /\ mode_copy.to = mode /\ mode_store_copy)
                => UNCHANGED <<engine, simtemp_timer>>]_vars

\* the period and the threshold were written, and mode is being written the
\* token it already holds
C25_SecondWriteInFlight ==
    /\ sampling_ms = 250
    /\ threshold_mC = 44015
    /\ mode = SIMTEMP_MODE_RAMP
    /\ mode_copy # NULL
    /\ mode_copy.to = mode
    /\ stats_last_error = 0 - EINVAL

C28_SelfTestPasses ==
    /\ cli.pc # "fail"
    /\ cli.pc # "error"

\* C29: sessions are independent.  The session of a file (its last_seq and
\* last_alert_state, or its absence) changes only in a step of a call on
\* that very file: its open, the entry of a poll or read on it, the return
\* of a read on it, or its release, which leaves it without session; a
\* release changes nothing of any other file.
C29_SessionsIndependent ==
    [][\A f \in Files :
         /\ private_data'[f] # private_data[f]
              => \/ is_open'[f] # is_open[f]
                 \/ \E t \in Threads :
                       /\ pc[t] = "idle" /\ pc'[t] # "idle" /\ fd'[t] = f
                 \/ \E t \in Threads :
                       /\ pc[t] = "read_copy" /\ fd[t] = f /\ pc'[t] = "idle"
         /\ simtemp_release(f)
              => /\ private_data'[f] = NULL
                 /\ \A g \in Files \ {f} :
                       /\ private_data'[g] = private_data[g]
                       /\ is_open'[g] = is_open[g]]_vars

\* two sessions at different positions, one of which has delivered a record
C29_TwoSessionsApart ==
    /\ private_data["f1"] # NULL
    /\ private_data["f2"] # NULL
    /\ private_data["f1"].last_seq # private_data["f2"].last_seq
    /\ private_data["f1"].last_alert_state # private_data["f2"].last_alert_state
    /\ done_snaps["f1"] # {}

\* C31: in noisy mode the readings a tick can produce from the current one
\* are exactly the current reading plus each of the integers -100..100,
\* clamped to 44000..46000.
C31_NoiseRange ==
    mode = SIMTEMP_MODE_NOISY =>
        {simtemp_mode_noisy(simtemp_current_mC, direction, r).mC : r \in 0..MaxRandom}
            = {ClampNoisy(simtemp_current_mC + d) : d \in -100..100}

\* C32: a tick (the step that advances updates) advances sample_seq with
\* it and leaves alerts, last_error, sampling_ms, threshold_mC, mode and the
\* session of every file as they were.
C32_TickFrame ==
    [][stats_updates' # stats_updates
         => /\ stats_updates' = (stats_updates + 1) % CounterMod
            /\ simtemp_sample_seq' = (simtemp_sample_seq + 1) % CounterMod
            /\ UNCHANGED <<stats_alerts, stats_last_error, sampling_ms,
                           threshold_mC, mode, private_data>>]_vars

\* a session created before the first tick is where it was after two ticks,
\* one of which took the reading across the threshold
C32_SessionKeptAcrossTicks ==
    \E f \in Files :
        /\ private_data[f] = [last_seq |-> 0, last_alert_state |-> 0]
        /\ stats_updates = 2
        /\ threshold_mC = 44005
        /\ stats_alerts = 0

C34_NoMemorySetsLastError ==
    [][\A t \in Threads, rv \in ReadResults :
          ReadNoMemReturn(t, rv)
              => (rv = 0 - ENOMEM /\ stats_last_error' = 0 - ENOMEM)]_vars

\* C35: whatever the interleaving of ticks and mode changes, the reading
\* stays within 43950..46050.
C35_ReadingEnvelope ==
    /\ simtemp_current_mC >= 43950
    /\ simtemp_current_mC <= 46050
    /\ direction \in {-1, 1}

\* the ramp, entered at the lower limit with the direction still downwards,
\* has taken the reading to the bottom of the envelope
C35_BelowLowerLimit ==
    /\ simtemp_current_mC = 43950
    /\ mode = SIMTEMP_MODE_RAMP
    /\ direction = 1

\* C36: every tick sees in mode[] either the token stored before or the
\* token being stored, so its generator step is the step of one of the two.
C36_TickSeesWholeMode ==
    [][simtemp_update_temp
         => \E m \in {mode} \cup (IF mode_copy = NULL THEN {} ELSE {mode_copy.to}),
               r \in RandomValues :
                 /\ IsModeToken(m)
                 /\ simtemp_current_mC' = Generate(m, simtemp_current_mC, direction, r).mC
                 /\ direction' = Generate(m, simtemp_current_mC, direction, r).dir]_vars

\* C37: reads running concurrently on one open file never deliver the
\* sample of the same tick twice: a read that returns a record returns one
\* whose tick no read on that file has delivered before.
C37_ConcurrentReadsDiffer ==
    [][\A t \in Threads :
          ReadSucceeds(t) => snap_seq[t] \notin done_snaps[fd[t]]]_vars

(***************************************************************************)
(* The sequence counter wrapping.  In the normal mode the reading rises by *)
(* 10 with every tick of the first 200, so it counts the callbacks that    *)
(* have run; the timer is followed for one callback past the wrap of the   *)
(* counters while one thread reads and polls one open file.                *)
(***************************************************************************)
\* callbacks followed: the counter wraps at the CounterMod-th
WrapTicks == CounterMod + 1

TickWrap ==
    /\ simtemp_current_mC < 44000 + 10 * WrapTicks
    /\ simtemp_update_temp

NextWrap ==
    \/ TickWrap
    \/ Open(SharedFile)
    \/ Poll(Reader, SharedFile)
    \/ PollReturn
    \/ Read(Reader, SharedFile)
    \/ ReadRecord
    \/ ReadWoken
    \/ ReadSnapshot
    \/ ReadReturn

SpecWrap == Init /\ [][NextWrap]_vars

\* C38: when nxp_simtemp_probe has failed, the timer is not armed and no
\* tick fires.
C38_FailedProbeStopsTimer ==
    /\ [](probe = "failed" => simtemp_timer.state # "pending")
    /\ [][probe = "failed" => stats_updates' = stats_updates]_vars

\* C39: between ticks updates equals sample_seq, also after the engine was
\* stopped and started again.
C39_UpdatesEqualSequence ==
    simtemp_timer.state \in {"pending", "deleted"} => stats_updates = simtemp_sample_seq

\* C40: the sequence counter is compared for equality only.  A reader that
\* recorded prev_seq = maximum is released once the tick has wrapped the
\* counter to 0; when its read returns, the cursor of the session is 0, the
\* wrapped value; and a poll of a session whose cursor equals the counter
\* after a delivery of the sample numbered 0 does not report POLLIN.
C40_WrapReleasesReader ==
    /\ [](\A t \in Threads :
            (pc[t] = "read_wait" /\ prev_seq[t] = CounterMod - 1
              /\ simtemp_sample_seq = 0) => WaitCondition(t))
    /\ [][\A t \in Threads :
            (pc[t] = "read_copy" /\ prev_seq[t] = CounterMod - 1 /\ ReadSucceeds(t))
              => private_data'[fd[t]].last_seq = 0]_vars
    /\ [][\A t \in Threads, m \in PollResults :
            (/\ pc[t] = "poll_lock"
             /\ 0 \in done_snaps[fd[t]]
             /\ private_data[fd[t]].last_seq = simtemp_sample_seq
             /\ PollLocked(t, m))
              => m \in {0, POLLPRI}]_vars

\* a read that waited across the wrap has returned, and a poll of the
\* session is in progress before the next tick
C40_PollAfterWrappedRead ==
    /\ pc["t1"] = "poll_lock"
    /\ 0 \in done_snaps["f1"]
    /\ private_data["f1"] # NULL
    /\ private_data["f1"].last_seq = 0
    /\ simtemp_sample_seq = 0
    /\ simtemp_current_mC = 44000 + 10 * CounterMod

====
